---- MODULE Spec2Model ----
(***************************************************************************)
(* rfinance: the ledger (Data: api_key + Portfolio of Assets of AssetOps), *)
(* its mutations (add / delete / reset / set-key, each followed by save),  *)
(* the FinanceProvider key check, and the performance fold                 *)
(* (AssetOp -> Asset -> Portfolio) driven by blocking price lookups.       *)
(*                                                                         *)
(* Option<T> values are sequences: <<>> is None, <<v>> is Some(v).         *)
(* f64 amounts are modelled on integer-valued inputs, where f64 sums and   *)
(* products are exact; a quotient (gain_perc) is a pair <<n, d>>: a        *)
(* reduced fraction when d > 0, and the IEEE results of a division by      *)
(* zero when d = 0 (<<0,0>> NaN, <<1,0>> +inf, <<-1,0>> -inf).             *)
(***************************************************************************)
EXTENDS Integers, Sequences, FiniteSets, TLC

\* ---------------------------------------------------------------- bounds
\* Most transactions the ledger holds at once (add is not offered beyond it).
MaxOps == 2
\* Most save() calls that fail with an I/O error in one run.
MaxIOFailures == 1

\* ---------------------------------------------------------------- inputs
Symbols == {"AAPL", "MSFT"}
\* Keys given to `conf --set-key`; "" is the empty key.
Keys == {"", "K"}
\* Prices the price service reports (regular_market_price).
Prices == {200}
\* What a quote request to the external service can end in.
LookupOutcomes == {<<"price", p>> : p \in Prices} \cup {<<"NetError", 0>>, <<"PriceUnavailable", 0>>}
\* Outcome of fs::write inside save().
IOOutcomes == {"ok", "fail"}

\* A date argument as typed is its shape with its day, month and two-digit year.
\* Utc::now().date_naive() on the day of the run.
Today == [y |-> 2026, m |-> 11, d |-> 6]

\* The `add` command lines tried: quantity (u32), optional price, optional date.
AddInputs ==
    { [quantity |-> 10, price |-> <<150>>, date |-> <<[fmt |-> "dd/mm/yy", d |-> 1, m |-> 1, yy |-> 24]>>],
      [quantity |-> 5,  price |-> <<180>>, date |-> <<[fmt |-> "dd/mm/yy", d |-> 1, m |-> 6, yy |-> 24]>>],
      [quantity |-> 0,  price |-> <<>>,    date |-> <<>>],
      [quantity |-> 5,  price |-> <<150>>, date |-> <<[fmt |-> "yyyy-mm-dd", d |-> 1, m |-> 1, yy |-> 24]>>] }

\* The `conf` command lines tried: --reset and --set-key.
ConfInputs ==
    { [reset |-> FALSE, set_key |-> <<>>], [reset |-> TRUE, set_key |-> <<>>],
      [reset |-> TRUE, set_key |-> <<"K">>] }
       \cup {[reset |-> FALSE, set_key |-> <<k>>] : k \in Keys}

\* `delete --index N`: absent, or a usize.
IndexInputs == {<<>>} \cup {<<i>> : i \in 0..(MaxOps + 1)}

\* ------------------------------------------------------------ arithmetic
RECURSIVE Gcd(_, _)
Gcd(a, b) == IF b = 0 THEN a ELSE Gcd(b, a % b)

Abs(x) == IF x < 0 THEN -x ELSE x

\* f64 division n / d (then scaled by the caller): a reduced fraction, or the
\* IEEE result for a zero divisor.
FDiv(n, d) ==
    IF d = 0
    THEN (IF n = 0 THEN <<0, 0>> ELSE IF n > 0 THEN <<1, 0>> ELSE <<-1, 0>>)
    ELSE LET s == IF d < 0 THEN -1 ELSE 1
             g == Gcd(Abs(n), Abs(d))
         IN <<(s * n) \div g, (s * d) \div g>>

\* gain / invested_value * 100f64
GainPerc(gain, invested_value) ==
    LET q == FDiv(gain, invested_value)
    IN IF q[2] = 0 THEN q ELSE FDiv(q[1] * 100, q[2])

\* u32 addition of unit counts. The quantities tried stay far below 2^32,
\* where the sum would overflow (a panic in a debug build, a wrap in a
\* release build); 2^32 itself is beyond the integers TLC computes with.
U32Add(a, b) == a + b

\* ------------------------------------------------------------ Performance
\* #[derive(Default)] for Performance: every field zero, gain_perc 0.0.
PerformanceDefault ==
    [invested_value |-> 0, latest_value |-> 0, gain |-> 0,
     gain_perc |-> <<0, 1>>, quantity |-> 0]

PerformanceNew(quantity, buying_price, current_price) ==
    LET invested_value == quantity * buying_price
        latest_value == quantity * current_price
        gain == latest_value - invested_value
    IN [invested_value |-> invested_value, latest_value |-> latest_value,
        gain |-> gain, gain_perc |-> GainPerc(gain, invested_value),
        quantity |-> quantity]

\* A slip in the combine rule: the right operand's invested value is added to
\* the latest value.
PerformanceAddSlip(self, rhs) ==
    LET invested_value == self.invested_value + rhs.invested_value
        latest_value == self.latest_value + rhs.invested_value
        gain == latest_value - invested_value
    IN [invested_value |-> invested_value, latest_value |-> latest_value,
        gain |-> gain, gain_perc |-> GainPerc(gain, invested_value),
        quantity |-> U32Add(self.quantity, rhs.quantity)]

\* impl Add for Performance
PerformanceAdd(self, rhs) ==
    LET invested_value == self.invested_value + rhs.invested_value
        latest_value == self.latest_value + rhs.latest_value
        gain == latest_value - invested_value
    IN [invested_value |-> invested_value, latest_value |-> latest_value,
        gain |-> gain, gain_perc |-> GainPerc(gain, invested_value),
        quantity |-> U32Add(self.quantity, rhs.quantity)]

\* ------------------------------------------------------------ data model
AssetOp(symbol, quantity, price, date) ==
    [symbol |-> symbol, quantity |-> quantity, price |-> price, date |-> date]

\* #[derive(Default)] for Asset
AssetDefault == [symbol |-> "", op |-> <<>>]

\* #[derive(Default)] for Portfolio: an empty map.
PortfolioDefault == [x \in {} |-> AssetDefault]

\* The transactions held for a symbol (none when the symbol is no key).
OpsOf(pf, symbol) == IF symbol \in DOMAIN pf THEN pf[symbol].op ELSE <<>>

RECURSIVE TotalOps(_)
TotalOps(pf) ==
    IF DOMAIN pf = {} THEN 0
    ELSE LET s == CHOOSE x \in DOMAIN pf : TRUE
         IN Len(pf[s].op) + TotalOps([x \in DOMAIN pf \ {s} |-> pf[x]])

\* Vec::remove(i0) with a 0-based position.
VecRemove(v, i0) == [k \in 1..(Len(v) - 1) |-> IF k <= i0 THEN v[k] ELSE v[k + 1]]

\* What save() writes: the serialised Data (data_file is #[serde(skip)]).
Serialize(api_key, pf) == [api_key |-> api_key, portfolio |-> pf]

\* NaiveDate::parse_from_str(d, "%d/%m/%y"); <<>> when the text does not parse.
ParseDate(text) ==
    IF text.fmt = "dd/mm/yy" /\ text.d \in 1..31 /\ text.m \in 1..12
    THEN <<[y |-> (IF text.yy < 70 THEN 2000 ELSE 1900) + text.yy, m |-> text.m, d |-> text.d]>>
    ELSE <<>>

\* A slip in add: the transaction is put first instead of last.
DataAddFront(pf, symbol, quantity, price, date) ==
    LET asset == IF symbol \in DOMAIN pf THEN pf[symbol] ELSE AssetDefault
        pushed == [symbol |-> symbol,
                   op |-> <<AssetOp(symbol, quantity, price, date)>> \o asset.op]
    IN [x \in DOMAIN pf \cup {symbol} |-> IF x = symbol THEN pushed ELSE pf[x]]

\* Data::add up to its save(): entry(symbol).or_default(), push, set symbol.
DataAdd(pf, symbol, quantity, price, date) ==
    LET asset == IF symbol \in DOMAIN pf THEN pf[symbol] ELSE AssetDefault
        pushed == [symbol |-> symbol,
                   op |-> Append(asset.op, AssetOp(symbol, quantity, price, date))]
    IN [x \in DOMAIN pf \cup {symbol} |-> IF x = symbol THEN pushed ELSE pf[x]]

\* A slip in delete: the bounds check forgets index 0 and the position is
\* taken as given (saturating at the first element).
DataDeleteNoZeroCheck(pf, symbol, index) ==
    IF symbol \notin DOMAIN pf
    THEN [res |-> "NotFound", pf |-> pf]
    ELSE IF index = <<>>
    THEN [res |-> "ok", pf |-> [x \in DOMAIN pf \ {symbol} |-> pf[x]]]
    ELSE IF index[1] > Len(pf[symbol].op)
    THEN [res |-> "OutOfRange", pf |-> pf]
    ELSE [res |-> "ok",
          pf |-> [pf EXCEPT ![symbol].op =
                     VecRemove(@, IF index[1] = 0 THEN 0 ELSE index[1] - 1)]]

\* A slip in delete: the 1-based index is used as a 0-based position.
DataDeleteZeroBased(pf, symbol, index) ==
    IF symbol \notin DOMAIN pf
    THEN [res |-> "NotFound", pf |-> pf]
    ELSE IF index = <<>>
    THEN [res |-> "ok", pf |-> [x \in DOMAIN pf \ {symbol} |-> pf[x]]]
    ELSE IF index[1] = 0 \/ index[1] > Len(pf[symbol].op)
    THEN [res |-> "OutOfRange", pf |-> pf]
    ELSE [res |-> "ok",
          pf |-> [pf EXCEPT ![symbol].op =
                     VecRemove(@, IF index[1] = Len(@) THEN index[1] - 1 ELSE index[1])]]

\* A slip in delete: without an index the transactions are cleared but the
\* asset stays in the map.
DataDeleteKeepsAsset(pf, symbol, index) ==
    IF symbol \notin DOMAIN pf
    THEN [res |-> "NotFound", pf |-> pf]
    ELSE IF index = <<>>
    THEN [res |-> "ok", pf |-> [pf EXCEPT ![symbol].op = <<>>]]
    ELSE IF index[1] = 0 \/ index[1] > Len(pf[symbol].op)
    THEN [res |-> "OutOfRange", pf |-> pf]
    ELSE [res |-> "ok", pf |-> [pf EXCEPT ![symbol].op = VecRemove(@, index[1] - 1)]]

\* Data::delete up to its save(): the error it bails with ("ok" when it goes
\* on to save) and the portfolio it leaves.
DataDelete(pf, symbol, index) ==
    IF symbol \notin DOMAIN pf
    THEN [res |-> "NotFound", pf |-> pf]
    ELSE IF index = <<>>
    THEN [res |-> "ok", pf |-> [x \in DOMAIN pf \ {symbol} |-> pf[x]]]
    ELSE IF index[1] = 0 \/ index[1] > Len(pf[symbol].op)
    THEN [res |-> "OutOfRange", pf |-> pf]
    ELSE [res |-> "ok", pf |-> [pf EXCEPT ![symbol].op = VecRemove(@, index[1] - 1)]]

\* FinanceProvider::new: no key for the empty string.
FinanceProviderNew(key) == IF key = "" THEN <<>> ELSE <<key>>

\* FinanceProvider::check_key
CheckKey(key) == IF key = <<>> THEN "KeyNotSet" ELSE "ok"

\* -------------------------------------------------------- performance fold
\* A slip in Asset::performance: no shared price is handed to the transactions.
PriceArgNone(latest) == <<>>

\* The current_price argument Asset::performance hands to every transaction.
PriceArg(latest) == <<latest>>

\* Price lookups one AssetOp::performance call issues.
OpLookups(current_price) == IF current_price = <<>> THEN 1 ELSE 0

\* AssetOp::performance, `fetched` being what a lookup of its own returns.
OpPerformance(op, current_price, fetched) ==
    PerformanceNew(op.quantity, op.price,
                   IF current_price = <<>> THEN fetched ELSE current_price[1])

\* try_fold over asset.op, left to right, from the accumulator `acc`.
RECURSIVE FoldOps(_, _, _)
FoldOps(acc, ops, latest) ==
    IF ops = <<>> THEN acc
    ELSE FoldOps(PerformanceAdd(acc, OpPerformance(Head(ops), PriceArg(latest), latest)),
                 Tail(ops), latest)

RECURSIVE FoldLookups(_, _)
FoldLookups(ops, latest) ==
    IF ops = <<>> THEN 0
    ELSE OpLookups(PriceArg(latest)) + FoldLookups(Tail(ops), latest)

\* Asset::performance once get_latest_price has returned `latest`: the folded
\* Performance and the lookups the whole call has issued.
AssetPerformance(asset, latest) ==
    [perf |-> FoldOps(PerformanceDefault, asset.op, latest),
     lookups |-> 1 + FoldLookups(asset.op, latest)]

\* ------------------------------------------------------------------ state
VARIABLES
    api_key,     \* Data.api_key
    portfolio,   \* Data.portfolio.asset: symbol -> Asset
    disk,        \* content of the data file (last successful save)
    fkey,        \* FinanceProvider.key
    ioFails,     \* save() failures so far
    pc,          \* where the running command stands ("idle": at the prompt)
    cur,         \* symbol of the lookup being made
    inflight,    \* requests to the price service not yet answered
    pending,     \* Cmd::add waiting for its price: the arguments
    todo,        \* Portfolio::performance: assets the fold has not visited
    order,       \* map iteration order of this show, as visited
    acc,         \* Portfolio::performance: the accumulator
    loopPos,     \* show_portfolio: position of the per-asset loop in `order`
    pfResult,    \* result of the last Portfolio::performance (Option)
    pfLookups,   \* lookups issued by that Portfolio::performance call
    pfPrices,    \* price each lookup of that call returned, by symbol
    asObs,       \* last Asset::performance that returned: symbol, perf, lookups
    last,        \* the command that ended last and how
    undo,        \* the add that can be undone by `delete --index count`, and
                 \* whether that delete has just been done (age 1)
    gone         \* symbols deleted as a whole and not added since

vars == <<api_key, portfolio, disk, fkey, ioFails, pc, cur, inflight, pending,
          todo, order, acc, loopPos, pfResult, pfLookups, pfPrices, asObs,
          last, undo, gone>>

ledger == <<api_key, portfolio, disk, fkey, ioFails, gone>>
showVars == <<todo, order, acc, loopPos, pfResult, pfLookups, pfPrices, asObs>>

NoPending == [symbol |-> "", quantity |-> 0, date |-> Today]
NoUndo == [sym |-> "", ops |-> <<>>, count |-> 0, age |-> 0]
NoPrices == [x \in {} |-> 0]
\* A command and how it ended ("running" until it has). The error is kept
\* for delete; any other command is noted as "other", with "ok" or "error".
LastRec(cmd, res) ==
    IF cmd = "delete" \/ res = "running"
    THEN [cmd |-> cmd, res |-> res]
    ELSE [cmd |-> "other", res |-> IF res = "ok" THEN "ok" ELSE "error"]

\* main: Data::load() (which saves), FinanceProvider::new(&data.api_key).
Init ==
    /\ api_key \in Keys
    /\ portfolio = PortfolioDefault
    /\ disk = Serialize(api_key, portfolio)
    /\ fkey = FinanceProviderNew(api_key)
    /\ ioFails = 0
    /\ pc = "idle"
    /\ cur = ""
    /\ inflight = 0
    /\ pending = NoPending
    /\ todo = {}
    /\ order = <<>>
    /\ acc = PerformanceDefault
    /\ loopPos = 0
    /\ pfResult = <<>>
    /\ pfLookups = 0
    /\ pfPrices = NoPrices
    /\ asObs = <<>>
    /\ last = LastRec("load", "ok")
    /\ undo = NoUndo
    /\ gone = {}

\* A new command starts: what the previous show left to look at is dropped.
ObsReset ==
    /\ todo' = {}
    /\ order' = <<>>
    /\ acc' = PerformanceDefault
    /\ loopPos' = 0
    /\ pfResult' = <<>>
    /\ pfLookups' = 0
    /\ pfPrices' = NoPrices
    /\ asObs' = <<>>

\* Cmd::parse hands a command to its handler, which blocks on a lookup.
Begin ==
    /\ last' = LastRec("other", "running")
    /\ undo' = NoUndo

\* The command returns to the REPL closure (main.rs), which prints any error.
Return(rec, u) ==
    /\ pc' = "idle"
    /\ cur' = ""
    /\ pending' = NoPending
    /\ last' = rec
    /\ undo' = u

\* The fs::write of save() may fail; the budget of failures bounds the run.
IOAllowed(io) == io = "ok" \/ ioFails < MaxIOFailures

\* Data::save of the ledger as it is at the end of the step.
Save(io) ==
    /\ disk' = IF io = "ok" THEN Serialize(api_key', portfolio') ELSE disk
    /\ ioFails' = IF io = "ok" THEN ioFails ELSE ioFails + 1

SaveRes(io) == IF io = "ok" THEN "ok" ELSE "IOError"

\* --------------------------------------------------------------- commands
\* Cmd::conf(reset, set_key): Data::reset or the key update, each with its
\* save(); the `?` after it skips the FinanceProvider update when it fails.
CmdConf(reset, set_key, io) ==
    /\ pc = "idle"
    /\ inflight' = inflight
    /\ ObsReset
    /\ IF reset
       THEN /\ IOAllowed(io)
            /\ api_key' = ""
            /\ portfolio' = PortfolioDefault
            /\ gone' = {}
            /\ Save(io)
            /\ fkey' = IF io = "ok" THEN <<>> ELSE fkey
            /\ Return(LastRec("reset", SaveRes(io)), NoUndo)
       ELSE IF set_key # <<>>
       THEN /\ IOAllowed(io)
            /\ api_key' = set_key[1]
            /\ UNCHANGED <<portfolio, gone>>
            /\ Save(io)
            /\ fkey' = IF io = "ok" THEN FinanceProviderNew(api_key') ELSE fkey
            /\ Return(LastRec("set-key", SaveRes(io)), NoUndo)
       ELSE /\ io = "ok"
            /\ UNCHANGED ledger
            /\ Return(LastRec("conf", "ok"), NoUndo)

\* Cmd::delete -> Data::delete: bail without saving, or mutate and save.
CmdDelete(symbol, index, io) ==
    /\ pc = "idle"
    /\ inflight' = inflight
    /\ ObsReset
    /\ LET d == DataDelete(portfolio, symbol, index)
       IN IF d.res # "ok"
          THEN /\ io = "ok"
               /\ UNCHANGED ledger
               /\ Return(LastRec("delete", d.res), NoUndo)
          ELSE /\ IOAllowed(io)
               /\ portfolio' = d.pf
               /\ gone' = IF index = <<>> THEN gone \cup {symbol} ELSE gone
               /\ UNCHANGED <<api_key, fkey>>
               /\ Save(io)
               /\ Return(LastRec("delete", SaveRes(io)),
                         IF undo.sym = symbol /\ undo.age = 0 /\ index = <<undo.count>>
                         THEN [undo EXCEPT !.age = 1] ELSE NoUndo)

\* Data::add with its save(), as the last call of Cmd::add.
DoAdd(symbol, quantity, price, date, io) ==
    /\ portfolio' = DataAdd(portfolio, symbol, quantity, price, date)
    /\ gone' = gone \ {symbol}
    /\ UNCHANGED <<api_key, fkey>>
    /\ Save(io)

\* What undoing that add has to restore: the transactions before it, and the
\* count after it.
AddUndo(symbol) ==
    [sym |-> symbol, ops |-> OpsOf(portfolio, symbol),
     count |-> Len(portfolio'[symbol].op), age |-> 0]

\* Cmd::add: the date is parsed first, then the price is taken or looked up
\* (get_latest_price: check_key, then the request), then Data::add.
CmdAdd(symbol, a, io) ==
    /\ pc = "idle"
    /\ TotalOps(portfolio) < MaxOps
    /\ ObsReset
    /\ LET date == IF a.date = <<>> THEN <<Today>> ELSE ParseDate(a.date[1])
       IN IF date = <<>>
          THEN /\ io = "ok"
               /\ UNCHANGED <<ledger, inflight>>
               /\ Return(LastRec("add", "BadDateFormat"), NoUndo)
          ELSE IF a.price # <<>>
          THEN /\ IOAllowed(io)
               /\ inflight' = inflight
               /\ DoAdd(symbol, a.quantity, a.price[1], date[1], io)
               /\ Return(LastRec("add", SaveRes(io)), AddUndo(symbol))
          ELSE IF CheckKey(fkey) # "ok"
          THEN /\ io = "ok"
               /\ UNCHANGED <<ledger, inflight>>
               /\ Return(LastRec("add", CheckKey(fkey)), NoUndo)
          ELSE /\ io = "ok"
               /\ UNCHANGED ledger
               /\ Begin
               /\ pc' = "add"
               /\ cur' = symbol
               /\ inflight' = inflight + 1
               /\ pending' = [symbol |-> symbol, quantity |-> a.quantity, date |-> date[1]]

\* The price for Cmd::add arrives (or the lookup fails and add returns it).
AddResponse(outcome, io) ==
    /\ pc = "add"
    /\ inflight = 1
    /\ inflight' = inflight - 1
    /\ UNCHANGED showVars
    /\ IF outcome[1] = "price"
       THEN /\ IOAllowed(io)
            /\ DoAdd(pending.symbol, pending.quantity, outcome[2], pending.date, io)
            /\ Return(LastRec("add", SaveRes(io)), AddUndo(pending.symbol))
       ELSE /\ io = "ok"
            /\ UNCHANGED ledger
            /\ Return(LastRec("add", outcome[1]), NoUndo)

\* Cmd::info / Cmd::search: get_quote / search check the key, then ask the
\* service.
CmdQuery(kind, symbol) ==
    /\ pc = "idle"
    /\ ObsReset
    /\ UNCHANGED ledger
    /\ IF CheckKey(fkey) # "ok"
       THEN /\ inflight' = inflight
            /\ Return(LastRec(kind, CheckKey(fkey)), NoUndo)
       ELSE /\ pc' = kind
            /\ cur' = symbol
            /\ inflight' = inflight + 1
            /\ pending' = pending
            /\ Begin

QueryResponse(outcome) ==
    /\ pc \in {"info", "search"}
    /\ inflight = 1
    /\ inflight' = inflight - 1
    /\ UNCHANGED <<ledger, showVars>>
    /\ Return(LastRec(pc, IF outcome[1] \in {"price", "PriceUnavailable"} THEN "ok" ELSE outcome[1]),
              NoUndo)

\* ------------------------------------------------------------------- show
\* show_portfolio returns (Ok, or the error of the lookup that failed); its
\* locals are dropped.
ShowEnd(res) ==
    /\ Return(LastRec("show", res), NoUndo)
    /\ ObsReset

\* Cmd::show -> table::show_portfolio, entering portfolio.performance(finance):
\* the try_fold starts from Performance::default() over asset.values().
CmdShow ==
    /\ pc = "idle"
    /\ pc' = "pf"
    /\ todo' = DOMAIN portfolio
    /\ UNCHANGED <<order, acc, loopPos, pfResult, pfLookups, pfPrices, asObs>>
    /\ Begin
    /\ UNCHANGED <<ledger, cur, inflight, pending>>

\* The fold takes the next asset of the map (any order) and calls
\* Asset::performance, which asks for the latest price of its symbol.
PfAsset(x) ==
    /\ pc = "pf"
    /\ inflight = 0
    /\ x \in todo
    /\ UNCHANGED ledger
    /\ IF CheckKey(fkey) # "ok"
       THEN /\ inflight' = inflight
            /\ ShowEnd(CheckKey(fkey))
       ELSE /\ cur' = portfolio[x].symbol
            /\ inflight' = inflight + 1
            /\ order' = Append(order, x)
            /\ pfLookups' = pfLookups + 1
            /\ UNCHANGED <<pc, pending, last, undo, todo, acc, loopPos,
                           pfResult, pfPrices, asObs>>

\* The price arrives: Asset::performance folds its transactions with it and
\* the portfolio fold adds the result to its accumulator; an error ends show.
PfResponse(outcome) ==
    /\ pc = "pf"
    /\ inflight = 1
    /\ inflight' = inflight - 1
    /\ UNCHANGED ledger
    /\ IF outcome[1] = "price"
       THEN LET ap == AssetPerformance(portfolio[cur], outcome[2])
            IN /\ acc' = PerformanceAdd(acc, ap.perf)
               /\ todo' = todo \ {cur}
               /\ pfLookups' = pfLookups + (ap.lookups - 1)
               /\ pfPrices' = [s \in DOMAIN pfPrices \cup {cur} |->
                                 IF s = cur THEN outcome[2] ELSE pfPrices[s]]
               /\ asObs' = <<[sym |-> cur, price |-> outcome[2], perf |-> ap.perf,
                              lookups |-> ap.lookups]>>
               /\ UNCHANGED <<pc, cur, pending, last, undo, order, loopPos, pfResult>>
       ELSE ShowEnd(outcome[1])

\* Portfolio::performance returns its accumulator; show_portfolio prints the
\* portfolio table and enters its per-asset loop (same map, same order).
PfReturn ==
    /\ pc = "pf"
    /\ inflight = 0
    /\ todo = {}
    /\ pfResult' = <<acc>>
    /\ pc' = "loop"
    /\ loopPos' = 1
    /\ UNCHANGED <<ledger, cur, inflight, pending, todo, order, acc, pfLookups,
                   pfPrices, asObs, last, undo>>

\* Loop body, first call: finance.get_latest_price(&asset.symbol).
LoopLatest ==
    /\ pc = "loop"
    /\ inflight = 0
    /\ loopPos <= Len(order)
    /\ UNCHANGED ledger
    /\ IF CheckKey(fkey) # "ok"
       THEN /\ inflight' = inflight
            /\ ShowEnd(CheckKey(fkey))
       ELSE /\ pc' = "loop_latest"
            /\ cur' = portfolio[order[loopPos]].symbol
            /\ inflight' = inflight + 1
            /\ UNCHANGED <<pending, last, undo, showVars>>

\* `latest` arrives; loop body, second call: asset.performance(finance) asks
\* for the price again.
LoopPerf(outcome) ==
    /\ pc = "loop_latest"
    /\ inflight = 1
    /\ UNCHANGED ledger
    /\ IF outcome[1] # "price"
       THEN /\ inflight' = inflight - 1
            /\ ShowEnd(outcome[1])
       ELSE IF CheckKey(fkey) # "ok"
       THEN /\ inflight' = inflight - 1
            /\ ShowEnd(CheckKey(fkey))
       ELSE /\ pc' = "loop_perf"
            /\ inflight' = (inflight - 1) + 1
            /\ UNCHANGED <<cur, pending, last, undo, showVars>>

\* asset.performance returns; the asset's table is printed (its transaction
\* rows reuse `latest`) and the loop moves on.
LoopPerfResponse(outcome) ==
    /\ pc = "loop_perf"
    /\ inflight = 1
    /\ inflight' = inflight - 1
    /\ UNCHANGED ledger
    /\ IF outcome[1] = "price"
       THEN LET ap == AssetPerformance(portfolio[cur], outcome[2])
            IN /\ asObs' = <<[sym |-> cur, price |-> outcome[2], perf |-> ap.perf,
                              lookups |-> ap.lookups]>>
               /\ loopPos' = loopPos + 1
               /\ pc' = "loop"
               /\ UNCHANGED <<cur, pending, last, undo, todo, order, acc,
                              pfResult, pfLookups, pfPrices>>
       ELSE ShowEnd(outcome[1])

\* The loop has visited every asset: show_portfolio returns Ok.
LoopDone ==
    /\ pc = "loop"
    /\ inflight = 0
    /\ loopPos > Len(order)
    /\ UNCHANGED <<ledger, inflight>>
    /\ ShowEnd("ok")

\* The commands that read or change the ledger, `IO` being what a save can
\* end in.
Commands(IO) ==
    \/ \E c \in ConfInputs, io \in IO : CmdConf(c.reset, c.set_key, io)
    \/ \E symbol \in Symbols, index \in IndexInputs, io \in IO : CmdDelete(symbol, index, io)
    \/ \E symbol \in Symbols, a \in AddInputs, io \in IO : CmdAdd(symbol, a, io)
    \/ \E outcome \in LookupOutcomes, io \in IO : AddResponse(outcome, io)

\* The commands that only report: info and search, and show lookup by lookup.
Reports ==
    \/ \E kind \in {"info", "search"}, symbol \in Symbols : CmdQuery(kind, symbol)
    \/ \E outcome \in LookupOutcomes : QueryResponse(outcome)
    \/ CmdShow
    \/ \E x \in Symbols : PfAsset(x)
    \/ \E outcome \in LookupOutcomes : PfResponse(outcome)
    \/ PfReturn
    \/ LoopLatest
    \/ \E outcome \in LookupOutcomes : LoopPerf(outcome)
    \/ \E outcome \in LookupOutcomes : LoopPerfResponse(outcome)
    \/ LoopDone

\* The ledger under the commands that change it, a save failing or not.
Next == Commands(IOOutcomes)

Spec == Init /\ [][Next]_vars

\* The ledger with its reports: every command, the saves succeeding.
NextShow == Commands({"ok"}) \/ Reports

SpecShow == Init /\ [][NextShow]_vars

\* ------------------------------------------------------- reference values
\* Sums over a transaction sequence, written out independently of the fold.
RECURSIVE SumInvested(_)
SumInvested(ops) ==
    IF ops = <<>> THEN 0 ELSE Head(ops).quantity * Head(ops).price + SumInvested(Tail(ops))

RECURSIVE SumQuantity(_)
SumQuantity(ops) == IF ops = <<>> THEN 0 ELSE Head(ops).quantity + SumQuantity(Tail(ops))

\* The record the performance formulas give for totals invested / latest / quantity.
TotalsRecord(invested, latest, quantity) ==
    [invested_value |-> invested, latest_value |-> latest, gain |-> latest - invested,
     gain_perc |-> GainPerc(latest - invested, invested), quantity |-> quantity]

\* Sum of f[x] over the symbols of S.
RECURSIVE SumOver(_, _)
SumOver(S, f) ==
    IF S = {} THEN 0
    ELSE LET x == CHOOSE y \in S : TRUE IN f[x] + SumOver(S \ {x}, f)

\* All orders in which the symbols of S can be visited.
Orders(S) ==
    {q \in [1..Cardinality(S) -> S] : \A i, j \in 1..Cardinality(S) : i # j => q[i] # q[j]}

\* Portfolio::performance when the map is iterated in the order q and the
\* lookup for symbol x returns prices[x].
RECURSIVE FoldAssets(_, _, _, _)
FoldAssets(a, q, pf, prices) ==
    IF q = <<>> THEN a
    ELSE FoldAssets(PerformanceAdd(a, AssetPerformance(pf[Head(q)], prices[Head(q)]).perf),
                    Tail(q), pf, prices)

\* Every transaction held in the portfolio.
AllOps(pf) == UNION {{pf[x].op[k] : k \in 1..Len(pf[x].op)} : x \in DOMAIN pf}

\* ------------------------------------------------------------------ claims

\* C1: a delete of a symbol that is no key of the portfolio (with or without
\* an index) fails with NotFound, a delete of a present symbol with index 0 or
\* an index beyond its transaction count fails with OutOfRange, and such a
\* failing call changes neither the in-memory ledger nor the data file.
C1_DeleteErrorsLeaveLedger ==
    [][(pc = "idle" /\ last'.cmd = "delete") =>
       \A symbol \in Symbols, index \in IndexInputs :
          /\ (symbol \notin DOMAIN portfolio /\ \E io \in IOOutcomes : CmdDelete(symbol, index, io)) =>
                /\ last'.res = "NotFound"
                /\ UNCHANGED <<api_key, portfolio, disk>>
          /\ ( /\ symbol \in DOMAIN portfolio
               /\ index # <<>>
               /\ (index[1] = 0 \/ index[1] > Len(OpsOf(portfolio, symbol)))
               /\ \E io \in IOOutcomes : CmdDelete(symbol, index, io) ) =>
                /\ last'.res = "OutOfRange"
                /\ UNCHANGED <<api_key, portfolio, disk>>]_vars

\* The case of the example: an asset with two transactions, and a delete that
\* has just failed with OutOfRange.
C1_Witness ==
    /\ last = LastRec("delete", "OutOfRange")
    /\ \E x \in DOMAIN portfolio : Len(portfolio[x].op) = 2

C3_DeleteSymbolRemovesAsset ==
    /\ [][(pc = "idle" /\ last'.cmd = "delete") =>
          \A symbol \in Symbols, io \in IOOutcomes :
             (symbol \in DOMAIN portfolio /\ CmdDelete(symbol, <<>>, io)) =>
                /\ DOMAIN portfolio' = DOMAIN portfolio \ {symbol}
                /\ \A x \in DOMAIN portfolio' : portfolio'[x] = portfolio[x]
                /\ symbol \in gone']_vars
    /\ [](/\ gone \cap DOMAIN portfolio = {}
          /\ (inflight > 0 /\ pc \in {"pf", "loop_latest", "loop_perf"}) => cur \notin gone
          /\ \A k \in 1..Len(order) : order[k] \notin gone
          /\ pfResult # <<>> =>
                LET kept == DOMAIN portfolio \ gone
                    inv == [x \in kept |-> SumInvested(portfolio[x].op)]
                    lat == [x \in kept |-> SumQuantity(portfolio[x].op) * pfPrices[x]]
                    qty == [x \in kept |-> SumQuantity(portfolio[x].op)]
                IN /\ pfResult[1].invested_value = SumOver(kept, inv)
                   /\ pfResult[1].latest_value = SumOver(kept, lat)
                   /\ pfResult[1].quantity = SumOver(kept, qty))

\* An asset was deleted as a whole while another one with transactions stays,
\* and a Portfolio::performance has returned since.
C3_Witness ==
    /\ gone # {}
    /\ pfResult # <<>>
    /\ \E x \in DOMAIN portfolio : portfolio[x].op # <<>>

\* C4: add puts the new transaction at the end of the asset's sequence
\* (creating the asset when absent), and an add followed by a delete with
\* index = the count after the add leaves the asset's transaction list as it
\* was before the add.
C4_AddAppendsDeleteLastRestores ==
    /\ [][(pc = "idle" /\ undo'.sym # "" /\ undo'.age = 0) =>
          \A symbol \in Symbols, a \in AddInputs, io \in IOOutcomes :
             ( /\ a.price # <<>>
               /\ (a.date = <<>> \/ ParseDate(a.date[1]) # <<>>)
               /\ CmdAdd(symbol, a, io) ) =>
                /\ symbol \in DOMAIN portfolio'
                /\ portfolio'[symbol].symbol = symbol
                /\ portfolio'[symbol].op =
                      Append(OpsOf(portfolio, symbol),
                             AssetOp(symbol, a.quantity, a.price[1],
                                     IF a.date = <<>> THEN Today ELSE ParseDate(a.date[1])[1]))]_vars
    /\ [][pc = "add" =>
          \A outcome \in LookupOutcomes, io \in IOOutcomes :
             (outcome[1] = "price" /\ AddResponse(outcome, io)) =>
                /\ pending.symbol \in DOMAIN portfolio'
                /\ portfolio'[pending.symbol].op =
                      Append(OpsOf(portfolio, pending.symbol),
                             AssetOp(pending.symbol, pending.quantity, outcome[2],
                                     pending.date))]_vars
    /\ [](undo.age = 1 => OpsOf(portfolio, undo.sym) = undo.ops)

\* An add onto an asset that held a transaction, then delete --index count.
C4_Witness ==
    /\ undo.age = 1
    /\ undo.ops # <<>>
    /\ last.cmd = "delete"

\* C5: Asset::performance returns, for every transaction sequence (the empty
\* one included), the totals record: invested = sum of quantity * price,
\* latest = sum of quantity * current price, quantity = sum of quantities,
\* gain = latest - invested, gain_perc = gain / invested * 100.
C5_AssetPerformanceIsTotals ==
    asObs # <<>> =>
       LET ops == portfolio[asObs[1].sym].op
       IN asObs[1].perf =
             TotalsRecord(SumInvested(ops), SumQuantity(ops) * asObs[1].price,
                          SumQuantity(ops))

C7_OneLookupPerAsset ==
    /\ inflight \in {0, 1}
    /\ asObs # <<>> => asObs[1].lookups = 1
    /\ pc = "pf" => pfLookups = Len(order)
    /\ pfResult # <<>> =>
          /\ pfLookups = Cardinality(DOMAIN portfolio)
          /\ Len(order) = Cardinality(DOMAIN portfolio)
          /\ {order[k] : k \in 1..Len(order)} = DOMAIN portfolio

\* Portfolio::performance has returned over two assets, and the asset whose
\* performance returned last holds a transaction.
C7_Witness ==
    /\ pfResult # <<>>
    /\ Cardinality(DOMAIN portfolio) = 2
    /\ asObs # <<>>
    /\ portfolio[asObs[1].sym].op # <<>>

\* C8: once the api key is the empty string the FinanceProvider holds no key
\* at any command boundary, and no request is made to the price service while
\* the key is empty.
C8_ProviderKeyFollowsLedger ==
    /\ (pc = "idle" /\ api_key = "") => fkey = <<>>
    /\ inflight > 0 => api_key # ""

\* C9: at every command boundary the data file holds the in-memory ledger.
C9_DiskEqualsMemory ==
    pc = "idle" => disk = Serialize(api_key, portfolio)

\* C10: no stored transaction has quantity 0.
C10_QuantitiesPositive ==
    \A t \in AllOps(portfolio) : t.quantity > 0

====
